---- MODULE Spec2Model ----
(***************************************************************************)
(* Verification model of the calibrator quote service:                     *)
(*   - compact-id packing          (QuoteConfigurationService.calculateId) *)
(*   - mandate construction        (config/arbiters.ts resolverTemplate)   *)
(*   - witness hashing             (generateWitnessHash, deriveMandateHash)*)
(*   - the quote pipeline          (QuoteService.getQuote)                 *)
(*   - the POST /quote handler     (routes/quote.ts)                       *)
(*   - the provider caches         (getUsdPrice, getSupportedPlatforms,    *)
(*                                  getTokenInfo) under concurrent lookups *)
(*                                                                         *)
(* Arbitrary-precision integers that are only shifted, masked and or-ed    *)
(* (the compact id) are represented exactly as the set of their one-bit    *)
(* positions, so that the real field offsets 255/252/160 are kept.         *)
(* Amounts that take part in arithmetic are small naturals.                *)
(***************************************************************************)
EXTENDS Integers, Sequences, FiniteSets, TLC

VARIABLES
    pin,     \* input of the pure function under check (NoValue in the pipeline)
    pout,    \* its result (NoValue until applied)
    pc,      \* position of the request in getQuote / the route handler
    req,     \* the request body
    q,       \* the locals of getQuote
    calls,   \* outbound calls issued so far, in order
    cfg,     \* result of generateConfiguration
    resp,    \* the HTTP reply
    clock,             \* Date.now()
    cache,             \* CoinGeckoProvider.cache: key -> {data, timestamp}
    platformCache,     \* CoinGeckoProvider.platformCache
    tokenInfoCache,    \* QuoteService.tokenInfoCache: key -> TokenInfo
    tasks,             \* the lookups in flight, each suspended at an await
    started,           \* lookups called so far
    platformRequests,  \* network requests for /asset_platforms so far
    last               \* the latest fetch issued or result returned

lookupVars ==
    <<clock, cache, platformCache, tokenInfoCache, tasks, started, platformRequests, last>>

vars == <<pin, pout, pc, req, q, calls, cfg, resp,
          clock, cache, platformCache, tokenInfoCache, tasks, started, platformRequests, last>>

NoValue == [none |-> TRUE]

\* a nullable value: null is the empty sequence, a value v is <<v>>.
\* A decimal string is represented by the number it spells; such a string
\* is never empty, hence truthy, also when it spells 0.
None == <<>>
Some(v) == <<v>>

\* the providers right after construction: empty maps, no platform list
NoLookups ==
    /\ clock = 0 /\ cache = <<>> /\ platformCache = None /\ tokenInfoCache = <<>>
    /\ tasks = <<>> /\ started = 0 /\ platformRequests = 0 /\ last = [kind |-> "none"]

\* no request is being served (the pure-function checks)
Idle == /\ pc = "idle" /\ req = NoValue /\ q = NoValue
        /\ calls = <<>> /\ cfg = NoValue /\ resp = NoValue
        /\ NoLookups

(***************************************************************************)
(* BigInt values as sets of bit positions                                  *)
(***************************************************************************)
RECURSIVE Pow2(_)
Pow2(n) == IF n = 0 THEN 1 ELSE 2 * Pow2(n - 1)

\* BigInt(n) for a small non-negative JS number n
NumberBits(n) == {i \in 0..15 : (n \div Pow2(i)) % 2 = 1}

RECURSIVE BitsNumber(_)
BitsNumber(s) ==
    IF s = {} THEN 0
    ELSE LET b == CHOOSE x \in s : TRUE IN Pow2(b) + BitsNumber(s \ {b})

ShiftLeft(x, n) == {b + n : b \in x}
ShiftRight(x, n) == {b - n : b \in {c \in x : c >= n}}
BitOr(x, y) == x \cup y
BitAnd(x, y) == x \cap y
\* (1n << n) - 1n
LowMask(n) == 0..(n - 1)

(***************************************************************************)
(* QuoteConfigurationService.calculateId                                   *)
(***************************************************************************)
\* A JavaScript number that may have a fractional part (the request schema
\* types resetPeriod as a number): whole + tenths/10, whole = Math.floor.
Number(whole, tenths) == [whole |-> whole, tenths |-> tenths]
isInteger(x) == x.tenths = 0
lessThan(x, k) == x.whole < k
greaterThan(x, k) == x.whole > k \/ (x.whole = k /\ x.tenths > 0)

\* BigInt(number): defined for integers, throws a RangeError otherwise
BigIntRangeError == "The number cannot be converted to a BigInt because it is not an integer"
BigIntOf(x) == NumberBits(x.whole)

MultichainShift == 255
ResetPeriodShift == 252
AllocatorShift == 160
TokenBits == 160

calculateIdHighBit(lockParameters, inputToken) ==
    LET multiChainBit == IF lockParameters.isMultichain THEN {0} ELSE {}
    IN BitOr(BitOr(BitOr(ShiftLeft(multiChainBit, MultichainShift),
                         ShiftLeft(BigIntOf(lockParameters.resetPeriod), ResetPeriodShift)),
                   ShiftLeft(lockParameters.allocatorId, AllocatorShift)),
             BitAnd(inputToken, LowMask(TokenBits)))

calculateId(lockParameters, inputToken) ==
    LET multiChainBit == IF lockParameters.isMultichain THEN {} ELSE {0}
        inputTokenBigInt == inputToken
        allocatorIdBigInt == lockParameters.allocatorId
    IN BitOr(BitOr(BitOr(ShiftLeft(multiChainBit, MultichainShift),
                         ShiftLeft(BigIntOf(lockParameters.resetPeriod), ResetPeriodShift)),
                   ShiftLeft(allocatorIdBigInt, AllocatorShift)),
             BitAnd(inputTokenBigInt, LowMask(TokenBits)))

\* generateConfiguration's guard on the reset period
ResetPeriodError == "Reset period must be between 0 and 7"
resetPeriodInvalid(lockParameters) ==
    lessThan(lockParameters.resetPeriod, 0) \/ greaterThan(lockParameters.resetPeriod, 7)

\* the id as generateConfiguration produces it: validation, then packing
packId(lockParameters, inputToken) ==
    IF resetPeriodInvalid(lockParameters)
    THEN [ok |-> FALSE, error |-> ResetPeriodError]
    ELSE IF ~isInteger(lockParameters.resetPeriod)
    THEN [ok |-> FALSE, error |-> BigIntRangeError]
    ELSE [ok |-> TRUE, id |-> calculateId(lockParameters, inputToken)]

\* reading the fields back out of a 256-bit id
unpackId(id) ==
    [isMultichain |-> 255 \notin id,
     resetPeriod  |-> BitsNumber(ShiftRight(BitAnd(id, 252..254), 252)),
     allocatorId  |-> ShiftRight(BitAnd(id, 160..251), 160),
     inputToken   |-> BitAnd(id, 0..159)]

(***************************************************************************)
(* JavaScript strings.  A string that the code takes apart (the witness    *)
(* type string) is a sequence of tokens: each of the delimiters            *)
(* ")" "(" "," " " is one token, every maximal run of word characters      *)
(* (\w) between delimiters is one token.  Two strings are equal exactly    *)
(* when their token sequences are equal.                                   *)
(***************************************************************************)
Delimiters == {")", "(", ",", " "}
IsWord(t) == t \notin Delimiters

FirstIndex(s, d) ==
    IF \E i \in 1..Len(s) : s[i] = d
    THEN CHOOSE i \in 1..Len(s) : s[i] = d /\ \A j \in 1..(i - 1) : s[j] # d
    ELSE 0

\* String.prototype.split(d): n occurrences of d give n + 1 pieces
RECURSIVE split(_, _)
split(s, d) ==
    LET i == FirstIndex(s, d)
    IN IF i = 0 THEN <<s>>
       ELSE <<SubSeq(s, 1, i - 1)>> \o split(SubSeq(s, i + 1, Len(s)), d)

\* String.prototype.trim()
RECURSIVE trim(_)
trim(s) ==
    IF Len(s) > 0 /\ s[1] = " " THEN trim(Tail(s))
    ELSE IF Len(s) > 0 /\ s[Len(s)] = " " THEN trim(SubSeq(s, 1, Len(s) - 1))
    ELSE s

\* parts.filter(part => part.length > 0)
nonEmpty(parts) == SelectSeq(parts, LAMBDA p : Len(p) > 0)

\* a destructured array element: the empty string stands for both "" and
\* undefined, which the code treats alike (!x)
ElementAt(arr, i) == IF i <= Len(arr) THEN arr[i] ELSE <<>>

(***************************************************************************)
(* Addresses and hashing.                                                  *)
(* An address string is its 20 bytes in lower-case hex plus whether the    *)
(* string is written with capitals; ABI encoding keeps the bytes only.     *)
(* keccak256 is collision-free: the digest stands for its preimage.        *)
(* A bigint too wide for the checker is its canonical decimal numeral.     *)
(***************************************************************************)
Addr(h, m) == [hex |-> h, mixed |-> m]
toLowerCase(a) == [a EXCEPT !.mixed = FALSE]
\* the empty string where an address string is expected
EmptyString == Addr("", FALSE)

keccak256(bytes) == [keccak256 |-> bytes]

AbiTypes == {"uint256", "address", "bytes32"}

\* an encoder that writes every bytes32 word as zeroes
encodeWordZeroBytes32(type, value) == IF type = "address" THEN value.hex ELSE IF type = "bytes32" THEN "" ELSE value

\* one 32-byte word of encodeAbiParameters
encodeWord(type, value) == IF type = "address" THEN value.hex ELSE value

encodeAbiParameters(types, values) ==
    [i \in 1..Len(types) |-> encodeWord(types[i], values[i])]

(***************************************************************************)
(* QuoteConfigurationService.generateWitnessHash                           *)
(***************************************************************************)
ErrMissingDeclaration == "Invalid witness type string format: missing variable declaration"
ErrInvalidDeclaration == "Invalid witness type string format: invalid variable declaration"
ErrStructMismatch == "Invalid witness type string format: struct name mismatch or invalid parameter list"
ErrInvalidParameter == "Invalid witness type string format: invalid parameter declaration"
ErrMissingValue == "Missing value for parameter"
ErrAbiType == "Invalid ABI type"

Fail(msg) == [ok |-> FALSE, error |-> msg]

\* /^(\w+)\((.*?)(?:\)|$)/ applied to a string without ")": the match
\* exists iff the string starts with a word followed by "("; group 1
regexStructName(s) ==
    IF Len(s) >= 2 /\ IsWord(s[1]) /\ s[2] = "(" THEN <<s[1]>> ELSE <<>>

\* the {type, name} pairs of the parameter list
parseParams(typeDefinitionWithoutClosing) ==
    LET list == split(split(typeDefinitionWithoutClosing, "(")[2], ")")[1]
        items == split(list, ",")
    IN [i \in 1..Len(items) |->
          LET pieces == split(trim(items[i]), " ")
          IN [type |-> ElementAt(pieces, 1), name |-> ElementAt(pieces, 2)]]

\* witnessData[name]
HasField(witnessData, name) == Len(name) = 1 /\ name[1] \in DOMAIN witnessData

generateWitnessHashBody(witnessTypeString, witnessData, hashedDefinition(_)) ==
    LET parts == split(witnessTypeString, ")")
        nonEmptyParts == nonEmpty(parts)
    IN IF Len(nonEmptyParts) # 2 THEN Fail(ErrMissingDeclaration)
       ELSE
       LET variableDecl == nonEmptyParts[1]
           typeDefinitionWithoutClosing == nonEmptyParts[2]
           decl == split(variableDecl, " ")
           structName == ElementAt(decl, 1)
           variableName == ElementAt(decl, 2)
       IN IF structName = <<>> \/ variableName = <<>> THEN Fail(ErrInvalidDeclaration)
          ELSE IF regexStructName(typeDefinitionWithoutClosing) = <<>>
                  \/ regexStructName(typeDefinitionWithoutClosing) # structName
          THEN Fail(ErrStructMismatch)
          ELSE
          LET params == parseParams(typeDefinitionWithoutClosing)
          IN IF \E i \in 1..Len(params) : params[i].type = <<>> \/ params[i].name = <<>>
             THEN Fail(ErrInvalidParameter)
             ELSE
             LET typeDefinition == Append(typeDefinitionWithoutClosing, ")")
                 typeHash == keccak256(hashedDefinition(typeDefinition))
             IN IF \E i \in 1..Len(params) : ~HasField(witnessData, params[i].name)
                THEN Fail(ErrMissingValue)
                ELSE IF \E i \in 1..Len(params) :
                           Len(params[i].type) # 1 \/ params[i].type[1] \notin AbiTypes
                THEN Fail(ErrAbiType)
                ELSE
                LET types == <<"bytes32">> \o [i \in 1..Len(params) |-> params[i].type[1]]
                    values == <<typeHash>> \o
                              [i \in 1..Len(params) |-> witnessData[params[i].name[1]]]
                    encodedData == encodeAbiParameters(types, values)
                IN [ok |-> TRUE, hash |-> keccak256(encodedData),
                    variableName |-> variableName]

\* a codec that hashes the declaration together with the definition
generateWitnessHashWholeString(witnessTypeString, witnessData) ==
    generateWitnessHashBody(witnessTypeString, witnessData,
                            LAMBDA d : witnessTypeString)

generateWitnessHash(witnessTypeString, witnessData) ==
    generateWitnessHashBody(witnessTypeString, witnessData, LAMBDA d : d)

(***************************************************************************)
(* QuoteConfigurationService.deriveMandateHash                             *)
(***************************************************************************)
MANDATE_TYPE_STRING ==
    <<"Mandate", "(", "uint256", " ", "chainId", ",", "address", " ", "tribunal", ",",
      "address", " ", "recipient", ",", "uint256", " ", "expires", ",",
      "address", " ", "token", ",", "uint256", " ", "minimumAmount", ",",
      "uint256", " ", "baselinePriorityFee", ",", "uint256", " ", "scalingFactor", ",",
      "bytes32", " ", "salt", ")">>

deriveMandateHash(chainId, tribunal, mandate) ==
    LET MANDATE_TYPEHASH == keccak256(MANDATE_TYPE_STRING)
        encodedData == encodeAbiParameters(
            <<"bytes32", "uint256", "address", "address", "uint256", "address",
              "uint256", "uint256", "uint256", "bytes32">>,
            <<MANDATE_TYPEHASH,
              chainId,
              toLowerCase(tribunal),
              toLowerCase(mandate.recipient),
              mandate.expires,
              toLowerCase(mandate.token),
              mandate.minimumAmount,
              mandate.baselinePriorityFee,
              mandate.scalingFactor,
              mandate.salt>>)
    IN keccak256(encodedData)

(***************************************************************************)
(* config/arbiters.ts: the registry and the mandate builder                *)
(***************************************************************************)
WitnessTypeString ==
    <<"Mandate", " ", "mandate", ")">> \o MANDATE_TYPE_STRING

\* the contract deployed on each chain; the entry for "src-dst" has the
\* source chain's contract as arbiter and the destination's as tribunal
ChainContract ==
    (1    :> Addr("dfd41e6e2e08e752f464084f5c11619a3c950237", TRUE)) @@
    (10   :> Addr("2602d9f66ec17f2dc770063f7b91821dd741f626", TRUE)) @@
    (8453 :> Addr("fabe453252ca8337b091ba01bb168030e2fe6c1f", TRUE)) @@
    (130  :> Addr("81fc1d90c5fae0f15fc91b5592177b594011c576", TRUE))

RegistryChains == DOMAIN ChainContract
ChainPairs == {p \in RegistryChains \X RegistryChains : p[1] # p[2]}

arbiterMapping ==
    [p \in ChainPairs |->
        [address           |-> ChainContract[p[1]],
         tribunal          |-> ChainContract[p[2]],
         witnessTypeString |-> WitnessTypeString,
         resolverTribunal  |-> ChainContract[p[2]]]]

\* optional context fields: ctx.has is the set of keys present in the body
Has(ctx, f) == f \in ctx.has

BipsDenominator == 10000
DefaultSlippageBips == 100
DefaultBaselinePriorityFee == "0"
DefaultScalingFactor == "1000000000100000000"

\* context.slippageBips || 100
slippageOrDefault(context) ==
    IF Has(context, "slippageBips") /\ context.slippageBips # 0
    THEN context.slippageBips ELSE DefaultSlippageBips

minimumAmountOf(outputAmountNet, context) ==
    IF outputAmountNet = None THEN 0
    ELSE outputAmountNet[1] -
         ((outputAmountNet[1] * slippageOrDefault(context)) \div BipsDenominator)

resolverTemplate(quote, sponsor, duration, context, tribunal, salt) ==
    [chainId   |-> quote.outputTokenChainId,
     tribunal  |-> tribunal,
     recipient |-> IF Has(context, "recipient") /\ context.recipient # EmptyString
                   THEN context.recipient ELSE sponsor,
     expires   |-> context.fillExpires,
     token     |-> quote.outputTokenAddress,
     minimumAmount |-> minimumAmountOf(quote.outputAmountNet, context),
     baselinePriorityFee |->
         IF Has(context, "baselinePriorityFee") /\ context.baselinePriorityFee # ""
         THEN context.baselinePriorityFee ELSE DefaultBaselinePriorityFee,
     scalingFactor |->
         IF Has(context, "scalingFactor") /\ context.scalingFactor # ""
         THEN context.scalingFactor ELSE DefaultScalingFactor,
     salt |-> salt]

(***************************************************************************)
(* QuoteService.getQuote: the locals and the effect of each step.          *)
(* An oracle price is a whole number of USD, i.e. the wei-scaled price     *)
(* divided by 10^18, and token decimals are 18, for which the code's       *)
(* normalisation and its two divisions by 10^18 are exact.                 *)
(***************************************************************************)
ZeroAddress == Addr("0000000000000000000000000000000000000000", FALSE)

\* the chains the oracle's platform list maps (QuoteService.initialize)
chainMapping == {1, 10, 130, 8453, 42161}

UnsupportedChainError == "Unsupported chain ID"
Err(msg, detail) == [message |-> msg, detail |-> detail]

\* getChainPlatform / the part of getTokenInfo before any fetch:
\* the native token never consults the chain mapping
tokenInfoRejects(address, chainId) ==
    address # ZeroAddress /\ chainId \notin chainMapping

InitialLocals ==
    [spotOutputAmount        |-> None,
     quoteOutputAmountDirect |-> None,
     quoteOutputAmountNet    |-> None,
     deltaAmount             |-> None,
     tribunalQuote           |-> None,
     tribunalQuoteUsd        |-> None,
     ethQuoteAmount          |-> None,
     initialDispensation     |-> None,
     isDispensationExcessive |-> FALSE,
     netEthAmount            |-> None]

\* spot = inputValueUsd * 10^decimals / outputPrice
spotAmount(inputTokenAmount, inputPrice, outputPrice) ==
    (inputTokenAmount * inputPrice) \div outputPrice

afterSpot(l, inputTokenAmount, inputPrice, outputPrice) ==
    [l EXCEPT !.spotOutputAmount =
                  Some(spotAmount(inputTokenAmount, inputPrice, outputPrice))]

\* a pipeline whose catch falls back to the spot amount
catchQuoteErrorSpotFallback(l) ==
    [l EXCEPT !.quoteOutputAmountDirect = l.spotOutputAmount,
              !.quoteOutputAmountNet = l.spotOutputAmount]

\* catch (error) of the routed part: logs, assigns nothing
catchQuoteError(l) == l

afterInitialQuote(l, price) == [l EXCEPT !.ethQuoteAmount = Some(price)]

\* a pipeline that takes a missing spot amount as zero
afterDirectQuoteZeroSpot(l, price) ==
    [l EXCEPT !.quoteOutputAmountDirect = Some(price),
              !.quoteOutputAmountNet = Some(price),
              !.deltaAmount = Some(price - (IF l.spotOutputAmount = None
                                            THEN 0 ELSE l.spotOutputAmount[1]))]

afterDirectQuote(l, price) ==
    LET l1 == [l EXCEPT !.quoteOutputAmountDirect = Some(price),
                        !.quoteOutputAmountNet = Some(price)]
    IN IF l1.spotOutputAmount # None
       THEN [l1 EXCEPT !.deltaAmount = Some(price - l1.spotOutputAmount[1])]
       ELSE l1

\* context?.slippageBips || 100
slippageOfRequest(r) ==
    IF r.hasContext THEN slippageOrDefault(r.context) ELSE DefaultSlippageBips

\* the minimumAmount of the provisional mandate sent to the tribunal
provisionalMinimum(r, amount) ==
    ((IF amount = None THEN 0 ELSE amount[1])
        * (BipsDenominator - slippageOfRequest(r))) \div BipsDenominator

\* lockParameters?.allocatorId || '0'
allocatorIdOfRequest(r) ==
    IF r.hasLockParameters THEN r.lockParameters.allocatorId ELSE {}

\* the arguments of tribunalService.getQuote that depend on the request
tribunalCall(r, phase, claimAmount, quoted) ==
    [kind          |-> "tribunal",
     phase         |-> phase,
     id            |-> allocatorIdOfRequest(r),
     amount        |-> claimAmount,
     minimumAmount |-> provisionalMinimum(r, quoted),
     chain         |-> r.outputTokenChainId]

\* coinGeckoProvider.getUsdPrice(token)
oracleCall(lookup, chain) ==
    [kind |-> "oracle", phase |-> lookup, id |-> {}, amount |-> None,
     minimumAmount |-> 0, chain |-> chain]

routerCall(leg, chain, amount) ==
    [kind |-> "router", phase |-> leg, id |-> {}, amount |-> amount,
     minimumAmount |-> 0, chain |-> chain]

\* after the first simulation returned: the cross-chain branch up to the
\* second simulation
afterPhase1(l, initialDispensation) ==
    LET isDispensationExcessive == initialDispensation > l.ethQuoteAmount[1]
        netEthAmount == IF isDispensationExcessive THEN 0
                        ELSE l.ethQuoteAmount[1] - initialDispensation
    IN [l EXCEPT !.initialDispensation = Some(initialDispensation),
                 !.isDispensationExcessive = isDispensationExcessive,
                 !.netEthAmount = Some(netEthAmount),
                 !.quoteOutputAmountNet =
                     IF isDispensationExcessive THEN Some(0) ELSE @]

\* a pipeline that enters the branch only for routes of the registry
isCrossChainRegistered(r) ==
    <<r.inputTokenChainId, r.outputTokenChainId>> \in DOMAIN arbiterMapping

\* inputTokenChainId !== outputTokenChainId
isCrossChain(r) == r.inputTokenChainId # r.outputTokenChainId

\* same-chain requests skip the whole branch
afterPhase1SameChain(l, initialDispensation) ==
    [l EXCEPT !.initialDispensation = Some(initialDispensation)]

\* a pipeline that drops the fee once the net output is zeroed
afterPhase2Nulling(l, dispensation) ==
    [l EXCEPT !.tribunalQuote =
                  IF l.isDispensationExcessive THEN None ELSE Some(dispensation)]

afterPhase2(l, dispensation) == [l EXCEPT !.tribunalQuote = Some(dispensation)]

afterEthPrice(l, ethPrice) ==
    [l EXCEPT !.tribunalQuoteUsd =
                  Some((IF l.tribunalQuote = None THEN 0 ELSE l.tribunalQuote[1])
                           * ethPrice)]

\* the delta recalculations that close the cross-chain branch
recalculateDelta(l) ==
    IF l.spotOutputAmount # None /\ l.quoteOutputAmountNet # None
    THEN [l EXCEPT !.deltaAmount =
                       Some(l.quoteOutputAmountNet[1] - l.spotOutputAmount[1])]
    ELSE l

afterNetQuote(l, price) ==
    recalculateDelta([l EXCEPT !.quoteOutputAmountNet = Some(price)])

\* the else-branch taken instead of the net quote
afterNoNetQuote(l) ==
    recalculateDelta(
        IF l.spotOutputAmount # None
        THEN [l EXCEPT !.deltaAmount = Some(0 - l.spotOutputAmount[1])]
        ELSE l)

(***************************************************************************)
(* QuoteConfigurationService.generateConfiguration                         *)
(***************************************************************************)
NoArbiterError == "No arbiter found for chain pair"
ExpiresOrderError == "fillExpires must be before claimExpires"
ClaimBuffer == 300

\* BigInt(inputToken) for the token addresses of the model
AddressBits(a) ==
    IF a.hex = "4444444444444444444444444444444444444444"
    THEN {4 * k + 2 : k \in 0..39}
    ELSE IF a.hex = "5555555555555555555555555555555555555555"
    THEN {4 * k : k \in 0..39} \cup {4 * k + 2 : k \in 0..39}
    ELSE {}

\* a service that only rejects fillExpires after claimExpires
expiresMisorderedStrict(fillExpires, claimExpires) == fillExpires > claimExpires

\* if (fillExpires >= claimExpires)
expiresMisordered(fillExpires, claimExpires) == fillExpires >= claimExpires

generateConfigurationBody(quote, sponsor, duration, lockParameters, context,
                          now, salt, hashedData(_)) ==
    IF resetPeriodInvalid(lockParameters) THEN Fail(Err(ResetPeriodError, <<>>))
    ELSE
    LET chainPair == <<quote.inputTokenChainId, quote.outputTokenChainId>>
    IN IF chainPair \notin DOMAIN arbiterMapping
       THEN Fail(Err(NoArbiterError, chainPair))
       ELSE
       IF ~isInteger(lockParameters.resetPeriod)
       THEN Fail(Err(BigIntRangeError, <<>>))
       ELSE
       LET arbiter == arbiterMapping[chainPair]
           id == calculateId(lockParameters, AddressBits(quote.inputTokenAddress))
           fillExpires == IF Has(context, "fillExpires")
                          THEN context.fillExpires ELSE now + duration
           claimExpires == IF Has(context, "claimExpires")
                           THEN context.claimExpires ELSE fillExpires + ClaimBuffer
       IN IF expiresMisordered(fillExpires, claimExpires)
          THEN Fail(Err(ExpiresOrderError, <<>>))
          ELSE
          LET completeContext ==
                  [context EXCEPT !.has = @ \cup {"fillExpires", "claimExpires"},
                                  !.fillExpires = fillExpires,
                                  !.claimExpires = claimExpires]
              witness == resolverTemplate(quote, sponsor, duration, completeContext,
                                          arbiter.resolverTribunal, salt)
              nonEmptyParts == nonEmpty(split(arbiter.witnessTypeString, ")"))
          IN IF Len(nonEmptyParts) # 2 THEN Fail(Err(ErrMissingDeclaration, <<>>))
             ELSE
             LET variableName == ElementAt(split(nonEmptyParts[1], " "), 2)
             IN IF variableName = <<>> THEN Fail(Err(ErrInvalidDeclaration, <<>>))
                ELSE
                LET hashed == generateWitnessHash(arbiter.witnessTypeString,
                                                  hashedData(witness))
                    dispensation == IF quote.tribunalQuote # None
                                    THEN quote.tribunalQuote[1] ELSE 0
                IN IF ~hashed.ok THEN Fail(Err(hashed.error, <<>>))
                   ELSE [ok   |-> TRUE,
                         data |-> [arbiter       |-> arbiter.address,
                                   tribunal      |-> arbiter.tribunal,
                                   sponsor       |-> sponsor,
                                   expires       |-> claimExpires,
                                   id            |-> id,
                                   amount        |-> quote.inputTokenAmount,
                                   maximumAmount |-> IF quote.outputAmountNet = None
                                                     THEN 0 ELSE quote.outputAmountNet[1],
                                   dispensation  |-> dispensation,
                                   variableName  |-> variableName,
                                   witness       |-> witness],
                         witnessHash  |-> hashed.hash,
                         dispensation |-> dispensation]

\* a service that hashes the mandate before the slippage is applied
generateConfigurationHashEarly(quote, sponsor, duration, lockParameters, context, now, salt) ==
    generateConfigurationBody(quote, sponsor, duration, lockParameters, context,
        now, salt,
        LAMBDA w : [w EXCEPT !.minimumAmount =
                                 IF quote.outputAmountNet = None
                                 THEN 0 ELSE quote.outputAmountNet[1]])

generateConfiguration(quote, sponsor, duration, lockParameters, context, now, salt) ==
    generateConfigurationBody(quote, sponsor, duration, lockParameters, context,
                              now, salt, LAMBDA w : w)

(***************************************************************************)
(* routes/quote.ts: POST /quote                                            *)
(***************************************************************************)
Duration == 3600
NoOutputError == "Failed to get output amount from either spot or quote price"

\* BigInt.prototype.toString(): the decimal digits, most significant first
RECURSIVE toDecimalString(_)
toDecimalString(n) ==
    IF n < 10 THEN <<n>> ELSE Append(toDecimalString(n \div 10), n % 10)

\* BigInt(decimal string)
RECURSIVE parseDecimal(_)
parseDecimal(d) ==
    IF Len(d) = 0 THEN 0
    ELSE 10 * parseDecimal(SubSeq(d, 1, Len(d) - 1)) + d[Len(d)]

\* convertBigIntsToStrings on the mandate: bigint fields become decimal
\* strings, the number chainId and the hex strings are left alone
convertMandate(m) ==
    [m EXCEPT !.expires = toDecimalString(@),
              !.minimumAmount = toDecimalString(@)]

\* a || b on nullable decimal strings
OrElse(a, b) == IF a # None THEN a ELSE b

\* a route that hands the direct amount on as the net amount
quoteForConfigDirect(r, rawQuote) ==
    [sponsor            |-> r.sponsor,
     inputTokenChainId  |-> r.inputTokenChainId,
     outputTokenChainId |-> r.outputTokenChainId,
     inputTokenAddress  |-> r.inputTokenAddress,
     outputTokenAddress |-> r.outputTokenAddress,
     inputTokenAmount   |-> r.inputTokenAmount,
     outputAmountDirect |-> OrElse(rawQuote.quoteOutputAmountDirect,
                                   rawQuote.spotOutputAmount),
     outputAmountNet    |-> OrElse(rawQuote.quoteOutputAmountDirect,
                                   rawQuote.spotOutputAmount),
     tribunalQuote      |-> rawQuote.tribunalQuote,
     tribunalQuoteUsd   |-> rawQuote.tribunalQuoteUsd]

quoteForConfig(r, rawQuote) ==
    [sponsor            |-> r.sponsor,
     inputTokenChainId  |-> r.inputTokenChainId,
     outputTokenChainId |-> r.outputTokenChainId,
     inputTokenAddress  |-> r.inputTokenAddress,
     outputTokenAddress |-> r.outputTokenAddress,
     inputTokenAmount   |-> r.inputTokenAmount,
     outputAmountDirect |-> OrElse(rawQuote.quoteOutputAmountDirect,
                                   rawQuote.spotOutputAmount),
     outputAmountNet    |-> OrElse(rawQuote.quoteOutputAmountNet,
                                   rawQuote.spotOutputAmount),
     tribunalQuote      |-> rawQuote.tribunalQuote,
     tribunalQuoteUsd   |-> rawQuote.tribunalQuoteUsd]

DefaultLockParameters ==
    [allocatorId |-> {}, resetPeriod |-> Number(0, 0), isMultichain |-> FALSE]

lockParametersOf(r) ==
    IF r.hasLockParameters THEN r.lockParameters ELSE DefaultLockParameters

contextOf(r) == IF r.hasContext THEN r.context ELSE [r.context EXCEPT !.has = {}]

\* `$${(Number(BigInt(usd)) / 10^18).toFixed(4)}`, null for a null amount;
\* the formatted text is represented by the amount it formats
formatUsd(usd) == IF usd = None THEN None ELSE Some(<<"$", usd[1]>>)

reply400(error) == [status |-> 400, message |-> error]

reply200(configuration, rawQuote) ==
    [status  |-> 200,
     data    |-> [arbiter |-> configuration.data.arbiter,
                  sponsor |-> configuration.data.sponsor,
                  expires |-> toDecimalString(configuration.data.expires),
                  id      |-> configuration.data.id,
                  amount  |-> toDecimalString(configuration.data.amount),
                  mandate |-> IF configuration.data.variableName = <<"mandate">>
                              THEN Some(convertMandate(configuration.data.witness))
                              ELSE None],
     context |-> [dispensation            |-> rawQuote.tribunalQuote,
                  dispensationUSD         |-> formatUsd(rawQuote.tribunalQuoteUsd),
                  spotOutputAmount        |-> rawQuote.spotOutputAmount,
                  quoteOutputAmountDirect |-> rawQuote.quoteOutputAmountDirect,
                  quoteOutputAmountNet    |-> rawQuote.quoteOutputAmountNet,
                  deltaAmount             |-> rawQuote.deltaAmount,
                  witnessHash             |-> configuration.witnessHash]]

(***************************************************************************)
(* Inputs of the mandate-builder check                                     *)
(***************************************************************************)
Sponsor == Addr("1111111111111111111111111111111111111111", FALSE)
Recipient == Addr("7777777777777777777777777777777777777777", FALSE)
RecipientCaps == Addr("abcdefabcdefabcdefabcdefabcdefabcdefabcd", TRUE)
InputTokenAddress == Addr("4444444444444444444444444444444444444444", FALSE)
OutputTokenAddress == Addr("5555555555555555555555555555555555555555", FALSE)
OutputTokenCaps == Addr("c02aaa39b223fe8d0a0e5c4f27ead9083c756cc2", TRUE)

AmountChoices == {0, 1, 199, 200, 10000, 12345}
BipsChoices == {0, 1, 50, 100, 9999, 10000}
FeeChoices == {"0", "2000000000"}
ScalingChoices == {"1000000000200000000"}
SaltChoices == {"salt1", "salt2"}
FillExpiresChoices == {1703023200}

ContextFields == {"slippageBips", "recipient", "baselinePriorityFee", "scalingFactor"}

\* absent fields carry a fixed filler that no operator may read
Contexts ==
    {c \in [has                 : SUBSET ContextFields,
            slippageBips        : BipsChoices,
            recipient           : {Recipient, EmptyString},
            baselinePriorityFee : FeeChoices,
            scalingFactor       : ScalingChoices,
            fillExpires         : FillExpiresChoices] :
        /\ ("slippageBips" \notin c.has => c.slippageBips = 0)
        /\ ("recipient" \notin c.has => c.recipient = EmptyString)
        /\ ("baselinePriorityFee" \notin c.has => c.baselinePriorityFee = "0")}

MandateInputs ==
    [quote : [outputTokenChainId : {8453},
              outputTokenAddress : {OutputTokenAddress},
              outputAmountDirect : {Some(a) : a \in AmountChoices},
              outputAmountNet    : {Some(a) : a \in AmountChoices}],
     context : Contexts,
     otherBips : BipsChoices,
     salt : {"salt1"}]

InitMandate ==
    /\ pin \in MandateInputs
    /\ pin.quote.outputAmountNet[1] <= pin.quote.outputAmountDirect[1]
    /\ pout = NoValue
    /\ Idle

\* the registry entry's resolver applied to the quote, once with the
\* context as given and once with slippageBips replaced by otherBips
BuildMandate ==
    /\ pout = NoValue
    /\ LET tribunal == arbiterMapping[<<10, 8453>>].resolverTribunal
           other == [pin.context EXCEPT !.has = @ \cup {"slippageBips"},
                                        !.slippageBips = pin.otherBips]
       IN pout' = [mandate |-> resolverTemplate(pin.quote, Sponsor, 3600,
                                                pin.context, tribunal, pin.salt),
                   other   |-> resolverTemplate(pin.quote, Sponsor, 3600,
                                                other, tribunal, pin.salt)]
    /\ UNCHANGED <<pin, pc, req, q, calls, cfg, resp>>
    /\ UNCHANGED lookupVars

NextMandate == BuildMandate
SpecMandate == InitMandate /\ [][NextMandate]_vars

\* the slippage the request asks for: the given bips, 100 when omitted
RequestedBips(context) ==
    IF Has(context, "slippageBips") THEN context.slippageBips ELSE 100

\* C5 (as claimed): minimumAmount = floor(direct * (10000 - bips) / 10000)
\* for every bips in 0..10000 (100 when omitted); = direct at bips = 0.
C5_MinimumAmountFormula ==
    pout # NoValue =>
        pout.mandate.minimumAmount =
            (pin.quote.outputAmountDirect[1] * (10000 - RequestedBips(pin.context)))
                \div 10000

\* C6 (as claimed): for a fixed quoted amount and b1 <= b2 in 0..10000,
\* minimumAmount built with b1 >= minimumAmount built with b2.
C6_MinimumAmountMonotone ==
    (pout # NoValue /\ Has(pin.context, "slippageBips")
       /\ pin.context.slippageBips <= pin.otherBips) =>
        pout.mandate.minimumAmount >= pout.other.minimumAmount

(***************************************************************************)
(* POST /quote, one request from the body to the reply.  Every await of    *)
(* the handler is one step; a step covers the synchronous code up to the   *)
(* next await.  The oracle, the router and the tribunal are external: each *)
(* call returns one of a few values or throws.                             *)
(***************************************************************************)
FetchFailedError == "Failed to fetch token info"

PipelineContexts ==
    LET base == [has |-> {}, slippageBips |-> 0, recipient |-> EmptyString,
                 baselinePriorityFee |-> "0", scalingFactor |-> "0",
                 fillExpires |-> 0, claimExpires |-> 0]
    IN {base,
        [base EXCEPT !.has = {"slippageBips"}, !.slippageBips = 0],
        [base EXCEPT !.has = {"slippageBips", "recipient"},
                     !.slippageBips = 500, !.recipient = RecipientCaps],
        [base EXCEPT !.has = {"fillExpires", "claimExpires", "baselinePriorityFee"},
                     !.baselinePriorityFee = "2000000000",
                     !.fillExpires = 1703023200, !.claimExpires = 1703023500],
        [base EXCEPT !.has = {"fillExpires", "claimExpires"},
                     !.fillExpires = 1703023500, !.claimExpires = 1703023500],
        [base EXCEPT !.has = {"fillExpires"}, !.fillExpires = 1703023200],
        [base EXCEPT !.has = {"claimExpires"}, !.claimExpires = 1703023500]}

PipelineLocks ==
    {[allocatorId |-> {0, 3}, resetPeriod |-> Number(4, 0), isMultichain |-> TRUE],
     [allocatorId |-> {1}, resetPeriod |-> Number(8, 0), isMultichain |-> FALSE],
     [allocatorId |-> {1}, resetPeriod |-> Number(1, 5), isMultichain |-> FALSE]}

\* source and destination chains: cross-chain with a registry entry, same
\* chain, a destination outside the registry, a chain unknown to the oracle
RouteChoices ==
    {<<10, 8453>>, <<1, 130>>, <<1, 1>>, <<10, 42161>>, <<999, 8453>>, <<10, 999>>}

InputAmount == 1000
NowChoices == {1703020000}
UsdPriceChoices == {1, 2}
EthAmountChoices == {600, 1000}
DirectAmountChoices == {900, 1000}
NetAmountChoices == {0, 500, 1100}
InitialDispensationChoices == {0, 400, 1000, 1500}
DispensationChoices == {0, 300, 1500}

BaseRequest(route) ==
    [sponsor            |-> Sponsor,
     inputTokenChainId  |-> route[1],
     inputTokenAddress  |-> InputTokenAddress,
     inputTokenAmount   |-> InputAmount,
     outputTokenChainId |-> route[2],
     outputTokenAddress |-> OutputTokenAddress,
     hasLockParameters  |-> FALSE,
     lockParameters     |-> DefaultLockParameters,
     hasContext         |-> FALSE,
     context            |-> CHOOSE c \in PipelineContexts : c.has = {}]

\* every route without optional parts, and the first route with each
\* context and each lockParameters
Requests ==
    {BaseRequest(route) : route \in RouteChoices}
    \cup {[BaseRequest(<<999, 8453>>) EXCEPT !.inputTokenAddress = ZeroAddress]}
    \cup {[BaseRequest(<<10, 8453>>) EXCEPT !.hasContext = TRUE, !.context = c] :
            c \in PipelineContexts}
    \cup {[BaseRequest(<<10, 8453>>) EXCEPT !.hasLockParameters = TRUE,
                                           !.lockParameters = lp] :
            lp \in PipelineLocks}

Init ==
    /\ pin = NoValue
    /\ pout = NoValue
    /\ pc = "start"
    /\ req \in Requests
    /\ q = InitialLocals
    /\ calls = <<>>
    /\ cfg = NoValue
    /\ resp = NoValue
    /\ NoLookups

\* a call and what it answered: Some(value), or None when it threw
Answered(call, result) == [call |-> call, result |-> result]

Reject(error) ==
    /\ resp' = reply400(error)
    /\ pc' = "replied"

\* Promise.all of the two getTokenInfo calls; a rejection leaves getQuote
\* and reaches the route's catch
TokenInfo ==
    /\ pc = "start"
    /\ \/ /\ tokenInfoRejects(req.inputTokenAddress, req.inputTokenChainId)
          /\ Reject(Err(UnsupportedChainError, req.inputTokenChainId))
       \/ /\ ~tokenInfoRejects(req.inputTokenAddress, req.inputTokenChainId)
          /\ tokenInfoRejects(req.outputTokenAddress, req.outputTokenChainId)
          /\ Reject(Err(UnsupportedChainError, req.outputTokenChainId))
       \/ /\ ~tokenInfoRejects(req.inputTokenAddress, req.inputTokenChainId)
          /\ ~tokenInfoRejects(req.outputTokenAddress, req.outputTokenChainId)
          /\ \/ Reject(Err(FetchFailedError, <<>>))
             \/ pc' = "spot" /\ UNCHANGED resp
    /\ UNCHANGED <<pin, pout, req, q, calls, cfg>>
    /\ UNCHANGED lookupVars

\* the two USD prices, looked up together; if either lookup throws the
\* failure is logged and spot stays null
SpotPrices ==
    /\ pc = "spot"
    /\ \E inputPrice \in {Some(p) : p \in UsdPriceChoices} \cup {None},
          outputPrice \in {Some(p) : p \in UsdPriceChoices} \cup {None} :
          /\ calls' = calls \o
                 <<Answered(oracleCall("inputUsd", req.inputTokenChainId), inputPrice),
                   Answered(oracleCall("outputUsd", req.outputTokenChainId), outputPrice)>>
          /\ IF inputPrice # None /\ outputPrice # None
             THEN q' = afterSpot(q, req.inputTokenAmount, inputPrice[1], outputPrice[1])
             ELSE UNCHANGED q
    /\ pc' = "initialQuote"
    /\ UNCHANGED <<pin, pout, req, cfg, resp>>
    /\ UNCHANGED lookupVars

\* input token -> native token on the source chain
InitialQuote ==
    /\ pc = "initialQuote"
    /\ LET call == routerCall("initial", req.inputTokenChainId, Some(req.inputTokenAmount))
       IN \/ \E amount \in EthAmountChoices :
                /\ q' = afterInitialQuote(q, amount)
                /\ calls' = Append(calls, Answered(call, Some(amount)))
                /\ pc' = "directQuote"
          \/ /\ calls' = Append(calls, Answered(call, None))
             /\ pc' = "quoteDone"
             /\ q' = catchQuoteError(q)
    /\ UNCHANGED <<pin, pout, req, cfg, resp>>
    /\ UNCHANGED lookupVars

\* native token -> output token on the destination chain, full size
DirectQuote ==
    /\ pc = "directQuote"
    /\ LET call == routerCall("direct", req.outputTokenChainId, q.ethQuoteAmount)
       IN \/ \E amount \in DirectAmountChoices :
                /\ q' = afterDirectQuote(q, amount)
                /\ calls' = Append(calls, Answered(call, Some(amount)))
                /\ pc' = "phase1"
          \/ /\ calls' = Append(calls, Answered(call, None))
             /\ pc' = "quoteDone"
             /\ q' = catchQuoteError(q)
    /\ UNCHANGED <<pin, pout, req, cfg, resp>>
    /\ UNCHANGED lookupVars

\* the first dispensation simulation and the branch on the chain ids
Phase1 ==
    /\ pc = "phase1"
    /\ LET call == tribunalCall(req, "phase1", q.ethQuoteAmount, q.quoteOutputAmountDirect)
       IN \/ \E initialDispensation \in InitialDispensationChoices :
                /\ calls' = Append(calls, Answered(call, Some(initialDispensation)))
                /\ IF isCrossChain(req)
                   THEN /\ q' = afterPhase1(q, initialDispensation)
                        /\ pc' = "phase2"
                   ELSE /\ q' = afterPhase1SameChain(q, initialDispensation)
                        /\ pc' = "quoteDone"
          \/ /\ calls' = Append(calls, Answered(call, None))
             /\ pc' = "quoteDone"
             /\ q' = catchQuoteError(q)
    /\ UNCHANGED <<pin, pout, req, cfg, resp>>
    /\ UNCHANGED lookupVars

\* the second dispensation simulation, with the net native amount
Phase2 ==
    /\ pc = "phase2"
    /\ LET call == tribunalCall(req, "phase2", q.netEthAmount, q.quoteOutputAmountNet)
       IN \/ \E dispensation \in DispensationChoices :
                /\ q' = afterPhase2(q, dispensation)
                /\ calls' = Append(calls, Answered(call, Some(dispensation)))
                /\ pc' = "ethPrice"
          \/ /\ calls' = Append(calls, Answered(call, None))
             /\ pc' = "quoteDone"
             /\ q' = catchQuoteError(q)
    /\ UNCHANGED <<pin, pout, req, cfg, resp>>
    /\ UNCHANGED lookupVars

\* the native token's USD price, then the branch on isDispensationExcessive
EthPrice ==
    /\ pc = "ethPrice"
    /\ LET call == oracleCall("ethUsd", 1)
       IN \/ \E ethPrice \in UsdPriceChoices :
                LET l == afterEthPrice(q, ethPrice)
                IN /\ calls' = Append(calls, Answered(call, Some(ethPrice)))
                   /\ IF l.isDispensationExcessive
                      THEN q' = afterNoNetQuote(l) /\ pc' = "quoteDone"
                      ELSE q' = l /\ pc' = "netQuote"
          \/ /\ calls' = Append(calls, Answered(call, None))
             /\ pc' = "quoteDone"
             /\ q' = catchQuoteError(q)
    /\ UNCHANGED <<pin, pout, req, cfg, resp>>
    /\ UNCHANGED lookupVars

\* native token -> output token on the destination chain, net size
NetQuote ==
    /\ pc = "netQuote"
    /\ LET call == routerCall("net", req.outputTokenChainId, q.netEthAmount)
       IN \/ \E amount \in NetAmountChoices :
                /\ q' = afterNetQuote(q, amount)
                /\ calls' = Append(calls, Answered(call, Some(amount)))
          \/ /\ calls' = Append(calls, Answered(call, None))
             /\ q' = catchQuoteError(q)
    /\ pc' = "quoteDone"
    /\ UNCHANGED <<pin, pout, req, cfg, resp>>
    /\ UNCHANGED lookupVars

\* getQuote has returned: the route builds the configuration and replies
Configure ==
    /\ pc = "quoteDone"
    /\ LET quote == quoteForConfig(req, q)
       IN IF quote.outputAmountNet = None
          THEN Reject(Err(NoOutputError, <<>>)) /\ UNCHANGED cfg
          ELSE \E now \in NowChoices, salt \in SaltChoices :
                 LET configuration ==
                         generateConfiguration(quote, req.sponsor, Duration,
                                               lockParametersOf(req), contextOf(req),
                                               now, salt)
                 IN IF configuration.ok
                    THEN /\ cfg' = configuration
                         /\ resp' = reply200(configuration, q)
                         /\ pc' = "replied"
                    ELSE Reject(configuration.error) /\ UNCHANGED cfg
    /\ UNCHANGED <<pin, pout, req, q, calls>>
    /\ UNCHANGED lookupVars

Next ==
    \/ TokenInfo
    \/ SpotPrices
    \/ InitialQuote
    \/ DirectQuote
    \/ Phase1
    \/ Phase2
    \/ EthPrice
    \/ NetQuote
    \/ Configure

Spec == Init /\ [][Next]_vars

(***************************************************************************)
(* Properties of the request pipeline                                      *)
(***************************************************************************)
\* getQuote has produced its result: the locals are what it returns
Done == pc \in {"quoteDone", "replied"}

Issued(kind, phase) ==
    \E i \in DOMAIN calls : calls[i].call.kind = kind /\ calls[i].call.phase = phase

\* what the call answered; None when it threw or was never issued
AnswerOf(kind, phase) ==
    IF Issued(kind, phase)
    THEN calls[CHOOSE i \in DOMAIN calls :
                   calls[i].call.kind = kind /\ calls[i].call.phase = phase].result
    ELSE None

Threw(kind, phase) == Issued(kind, phase) /\ AnswerOf(kind, phase) = None

\* what the spot step computes from the two lookups of the log
SpotOfLookups ==
    IF AnswerOf("oracle", "inputUsd") # None /\ AnswerOf("oracle", "outputUsd") # None
    THEN Some(spotAmount(req.inputTokenAmount, AnswerOf("oracle", "inputUsd")[1],
                         AnswerOf("oracle", "outputUsd")[1]))
    ELSE None

\* the client's reading of the mandate of a 200 reply
parseMandate(m) ==
    [m EXCEPT !.expires = parseDecimal(@), !.minimumAmount = parseDecimal(@)]

\* C2: in every generated configuration and every 200 response, the returned
\* witnessHash is the struct hash of exactly the mandate returned with it.
C2_HashOfReturnedMandate ==
    /\ cfg # NoValue =>
          cfg.witnessHash =
              generateWitnessHash(WitnessTypeString, cfg.data.witness).hash
    /\ (resp # NoValue /\ resp.status = 200) =>
          /\ resp.data.mandate # None
          /\ resp.context.witnessHash =
                 generateWitnessHash(WitnessTypeString,
                                     parseMandate(resp.data.mandate[1])).hash

\* a 200 reply whose mandate carries a slippage-reduced minimumAmount
C2_Witness ==
    /\ pc = "replied"
    /\ resp.status = 200
    /\ parseMandate(resp.data.mandate[1]).minimumAmount < cfg.data.maximumAmount
    /\ parseMandate(resp.data.mandate[1]).minimumAmount > 0

\* C7 (as claimed): in every pipeline result with direct and net both
\* non-null, quoteOutputAmountNet <= quoteOutputAmountDirect.
C7_NetAtMostDirect ==
    (Done /\ q.quoteOutputAmountDirect # None /\ q.quoteOutputAmountNet # None) =>
        q.quoteOutputAmountNet[1] <= q.quoteOutputAmountDirect[1]

\* C8 (as claimed): whenever the phase-1 dispensation is >= the intermediate
\* native amount, the result has net = 0 and direct = the direct routed value.
C8_ExcessZeroesNet ==
    (Done /\ AnswerOf("tribunal", "phase1") # None
          /\ AnswerOf("tribunal", "phase1")[1] >= q.ethQuoteAmount[1]) =>
        /\ q.quoteOutputAmountNet = Some(0)
        /\ q.quoteOutputAmountDirect = AnswerOf("router", "direct")

C11_RouteFailureLeavesNulls ==
    (Done /\ (Threw("router", "initial") \/ Threw("router", "direct"))) =>
        /\ q.quoteOutputAmountDirect = None
        /\ q.quoteOutputAmountNet = None
        /\ q.deltaAmount = None
        /\ q.tribunalQuote = None
        /\ q.spotOutputAmount = SpotOfLookups

\* the direct leg threw after the spot step had produced an amount
C11_Witness ==
    /\ pc = "quoteDone"
    /\ Threw("router", "direct")
    /\ q.spotOutputAmount # None
    /\ q.quoteOutputAmountDirect = None

\* C12: if either USD price lookup fails, getQuote still returns a result
\* with spotOutputAmount = null and deltaAmount = null, and the routed
\* direct amount is reported whenever the router succeeds; a 200 reply
\* carries the same three values.
C12_SpotFailureKeepsRoute ==
    (Done /\ (Threw("oracle", "inputUsd") \/ Threw("oracle", "outputUsd"))) =>
        /\ q.spotOutputAmount = None
        /\ q.deltaAmount = None
        /\ AnswerOf("router", "direct") # None =>
               q.quoteOutputAmountDirect = AnswerOf("router", "direct")
        /\ (resp # NoValue /\ resp.status = 200) =>
               /\ resp.context.spotOutputAmount = None
               /\ resp.context.deltaAmount = None
               /\ resp.context.quoteOutputAmountDirect = q.quoteOutputAmountDirect

\* a 200 reply without spot and delta that reports the direct amount
C12_Witness ==
    /\ pc = "replied"
    /\ resp.status = 200
    /\ Threw("oracle", "outputUsd")
    /\ AnswerOf("router", "direct") # None
    /\ resp.context.quoteOutputAmountDirect = AnswerOf("router", "direct")
    /\ resp.context.spotOutputAmount = None

\* a request that generateConfiguration accepts whatever the amounts are
ValidInputs(r) ==
    /\ <<r.inputTokenChainId, r.outputTokenChainId>> \in DOMAIN arbiterMapping
    /\ ~resetPeriodInvalid(lockParametersOf(r))
    /\ isInteger(lockParametersOf(r).resetPeriod)
    /\ (Has(contextOf(r), "fillExpires") /\ Has(contextOf(r), "claimExpires")) =>
           contextOf(r).fillExpires < contextOf(r).claimExpires

\* C13 (as claimed): when the spot lookup and the routed quote both fail
\* for a supported chain pair and valid inputs, the request is answered
\* successfully (echoed inputs, a witnessHash, zero amounts), not with an
\* error.
C13_BothFailStillAnswered ==
    (pc = "replied" /\ ValidInputs(req)
       /\ (Threw("oracle", "inputUsd") \/ Threw("oracle", "outputUsd"))
       /\ (Threw("router", "initial") \/ Threw("router", "direct"))) =>
        /\ resp.status = 200
        /\ resp.data.mandate # None
        /\ parseMandate(resp.data.mandate[1]).minimumAmount = 0

\* C14 (as claimed): deltaAmount is non-null exactly when the spot amount
\* and a routed amount are both known, and then deltaAmount = net - spot
\* (net is the direct amount when no net was computed), so deltaAmount > 0
\* iff net > spot.
C14_DeltaIsNetMinusSpot ==
    Done =>
        LET known == q.spotOutputAmount # None /\ q.quoteOutputAmountNet # None
        IN /\ (q.deltaAmount # None) = known
           /\ known =>
                  /\ q.deltaAmount[1] = q.quoteOutputAmountNet[1] - q.spotOutputAmount[1]
                  /\ (q.deltaAmount[1] > 0) =
                         (q.quoteOutputAmountNet[1] > q.spotOutputAmount[1])

\* C15 (amended): the assembled compact's maximumAmount equals the
\* pipeline's quoteOutputAmountNet whenever the pipeline produced one and
\* the spot amount otherwise, and its amount equals the request's
\* inputTokenAmount.
C15_MaximumAmountIsNetOrSpot ==
    cfg # NoValue =>
        /\ cfg.data.maximumAmount =
               (IF q.quoteOutputAmountNet # None
                THEN q.quoteOutputAmountNet[1] ELSE q.spotOutputAmount[1])
        /\ cfg.data.amount = req.inputTokenAmount

\* a compact built from a net amount that differs from direct and spot
C15_Witness ==
    /\ cfg # NoValue
    /\ q.quoteOutputAmountNet # None /\ q.spotOutputAmount # None
    /\ q.quoteOutputAmountNet # q.quoteOutputAmountDirect
    /\ q.quoteOutputAmountNet # q.spotOutputAmount
    /\ cfg.data.maximumAmount = q.quoteOutputAmountNet[1]
    /\ cfg.data.maximumAmount > 0

\* C15 (as claimed): the assembled compact's maximumAmount always equals
\* the pipeline's quoteOutputAmountNet, and its amount the inputTokenAmount.
C15_MaximumAmountIsNet ==
    cfg # NoValue =>
        /\ q.quoteOutputAmountNet # None
        /\ cfg.data.maximumAmount = q.quoteOutputAmountNet[1]
        /\ cfg.data.amount = req.inputTokenAmount

\* the fillExpires values generateConfiguration can arrive at for a request
FillExpiresOf(r) ==
    IF Has(contextOf(r), "fillExpires")
    THEN {contextOf(r).fillExpires}
    ELSE {now + Duration : now \in NowChoices}

ClaimExpiresOf(r, fillExpires) ==
    IF Has(contextOf(r), "claimExpires")
    THEN contextOf(r).claimExpires ELSE fillExpires + ClaimBuffer

\* the request passed every check that precedes the order check
ReachedExpiresCheck ==
    /\ Issued("oracle", "inputUsd")
    /\ quoteForConfig(req, q).outputAmountNet # None
    /\ ~resetPeriodInvalid(lockParametersOf(req))
    /\ <<req.inputTokenChainId, req.outputTokenChainId>> \in DOMAIN arbiterMapping
    /\ isInteger(lockParametersOf(req).resetPeriod)

C18_NoArbiterRejected ==
    (pc = "replied"
       /\ <<req.inputTokenChainId, req.outputTokenChainId>> \notin DOMAIN arbiterMapping
       /\ Issued("oracle", "inputUsd")
       /\ ~resetPeriodInvalid(lockParametersOf(req))) =>
        /\ resp.status = 400
        /\ resp.message =
               Err(NoArbiterError, <<req.inputTokenChainId, req.outputTokenChainId>>)

\* the first chain of the request that the oracle's mapping lacks
UnmappedChains(r) == {r.inputTokenChainId, r.outputTokenChainId} \ chainMapping
FirstUnmappedChain(r) ==
    IF r.inputTokenChainId \notin chainMapping
    THEN r.inputTokenChainId ELSE r.outputTokenChainId

\* C19 (as claimed): getQuote rejects with 'Unsupported chain ID: N'
\* whenever the input or output chain N has no entry in the oracle's
\* chain-to-platform mapping, for every token address on that chain.
C19_UnmappedChainRejected ==
    (pc # "start" /\ UnmappedChains(req) # {}) =>
        /\ pc = "replied"
        /\ calls = <<>>
        /\ resp.status = 400
        /\ resp.message.message = UnsupportedChainError
        /\ resp.message.detail = FirstUnmappedChain(req)

\* C20 (as claimed): each optional context field is defaulted only when
\* absent: recipient = sponsor, baselinePriorityFee = 0, scalingFactor =
\* 1000000000100000000 and slippage = 100 bips when the context omits the
\* field, and the supplied value unchanged whenever the context has one.
C20_DefaultsOnlyWhenAbsent ==
    pout # NoValue =>
        LET c == pin.context
            net == pin.quote.outputAmountNet[1]
            bips == IF Has(c, "slippageBips") THEN c.slippageBips ELSE 100
        IN /\ pout.mandate.recipient =
                  (IF Has(c, "recipient") THEN c.recipient ELSE Sponsor)
           /\ pout.mandate.baselinePriorityFee =
                  (IF Has(c, "baselinePriorityFee") THEN c.baselinePriorityFee ELSE "0")
           /\ pout.mandate.scalingFactor =
                  (IF Has(c, "scalingFactor") THEN c.scalingFactor
                   ELSE "1000000000100000000")
           /\ pout.mandate.minimumAmount = net - ((net * bips) \div 10000)


\* the position of a call in the request's call history
IndexOf(kind, phase) ==
    CHOOSE i \in DOMAIN calls : calls[i].call.kind = kind /\ calls[i].call.phase = phase

\* C24: for a cross-chain quote whose dispensation is 0 the separate net
\* router call is omitted and net equals direct.
C24_ZeroDispensationSkipsNetCall ==
    (/\ Done
     /\ req.inputTokenChainId # req.outputTokenChainId
     /\ AnswerOf("tribunal", "phase1") = Some(0)
     /\ AnswerOf("tribunal", "phase2") = Some(0)) =>
        /\ ~Issued("router", "net")
        /\ q.quoteOutputAmountNet = q.quoteOutputAmountDirect

\* C25: the phase-2 tribunal simulation is issued only after the net routed
\* quote has completed, and is simulated with that net amount.
C25_Phase2AfterNetQuote ==
    Issued("tribunal", "phase2") =>
        /\ Issued("router", "net")
        /\ AnswerOf("router", "net") # None
        /\ IndexOf("router", "net") < IndexOf("tribunal", "phase2")


\* C29: a failure of the ETH-USD lookup behind tribunalQuoteUsd changes
\* tribunalQuoteUsd only: the direct and net amounts, the delta and the
\* dispensation are those of a request whose lookup succeeds, which ends
\* with the net routed quote or, on an excessive dispensation, with the
\* delta against a net amount of zero.
C29_EthPriceFailureOnlyUsd ==
    (Done /\ Threw("oracle", "ethUsd")) =>
        IF q.isDispensationExcessive
        THEN \A ethPrice \in UsdPriceChoices :
                LET s == afterNoNetQuote(afterEthPrice(q, ethPrice))
                IN /\ q.quoteOutputAmountDirect = s.quoteOutputAmountDirect
                   /\ q.quoteOutputAmountNet = s.quoteOutputAmountNet
                   /\ q.deltaAmount = s.deltaAmount
                   /\ q.tribunalQuote = s.tribunalQuote
        ELSE Issued("router", "net")


\* C30: the claim handed to the tribunal for the dispensation simulations
\* carries the compact id of the compact returned to the client, the id
\* packed from lockParameters and the input token.
C30_TribunalIdIsCompactId ==
    (resp # NoValue /\ resp.status = 200) =>
        \A i \in DOMAIN calls :
            calls[i].call.kind = "tribunal" => calls[i].call.id = resp.data.id

(***************************************************************************)
(* Inputs of the witness-hash check                                        *)
(***************************************************************************)
\* the registry's string, and strings that depart from the grammar
NoClosingParen == SubSeq(WitnessTypeString, 1, Len(WitnessTypeString) - 1)
OtherStructName == <<"Order", " ", "mandate", ")">> \o MANDATE_TYPE_STRING
NoVariableName == <<"Mandate", ")">> \o MANDATE_TYPE_STRING
ShortTypeString ==
    <<"Mandate", " ", "witness", ")", "Mandate", "(", "uint256", " ", "chainId", ",",
      "bytes32", " ", "salt", ")">>

ExtraDeclarationWord ==
    <<"Mandate", " ", "mandate", " ", "extra", ")">> \o MANDATE_TYPE_STRING

TypeStringChoices ==
    {WitnessTypeString, NoClosingParen, OtherStructName, NoVariableName, ShortTypeString,
     ExtraDeclarationWord}

HashMandates ==
    [chainId   : {1, 8453},
     tribunal  : {ChainContract[10], Addr("2222222222222222222222222222222222222222", FALSE)},
     recipient : {Sponsor, RecipientCaps},
     expires   : {0, 1703023200},
     token     : {OutputTokenAddress, OutputTokenCaps},
     minimumAmount : {0, 990},
     baselinePriorityFee : FeeChoices,
     scalingFactor : {DefaultScalingFactor} \cup ScalingChoices,
     salt : SaltChoices]

InitHash ==
    /\ pin \in [witnessTypeString : TypeStringChoices, witnessData : HashMandates,
                otherSalt : SaltChoices]
    /\ pout = NoValue
    /\ Idle

\* the local witness hash next to the tribunal's derivation for the
\* same chain id, tribunal and mandate, and the local witness hash of the
\* mandate that carries the other salt
HashMandate ==
    /\ pout = NoValue
    /\ pout' = [witnessHash |-> generateWitnessHash(pin.witnessTypeString,
                                                    pin.witnessData),
                resalted |-> generateWitnessHash(pin.witnessTypeString,
                                [pin.witnessData EXCEPT !.salt = pin.otherSalt]),
                derived |-> deriveMandateHash(pin.witnessData.chainId,
                                              pin.witnessData.tribunal,
                                              pin.witnessData)]
    /\ UNCHANGED <<pin, pc, req, q, calls, cfg, resp>>
    /\ UNCHANGED lookupVars

NextHash == HashMandate
SpecHash == InitHash /\ [][NextHash]_vars

MatchesGrammar(s) ==
    /\ Len(s) >= 10
    /\ (Len(s) - 6) % 4 = 0
    /\ IsWord(s[1]) /\ s[2] = " " /\ IsWord(s[3]) /\ s[4] = ")"
    /\ s[5] = s[1] /\ s[6] = "("
    /\ \A k \in 0..((Len(s) - 6) \div 4 - 1) :
          /\ IsWord(s[7 + 4 * k]) /\ s[8 + 4 * k] = " " /\ IsWord(s[9 + 4 * k])
          /\ s[10 + 4 * k] = (IF 10 + 4 * k = Len(s) THEN ")" ELSE ",")

\* C22: a witness-type-string is hashed only if it matches the grammar
\* exactly; every other string is rejected with an error and no hash.
C22_GrammarEnforced ==
    pout # NoValue =>
        /\ pout.witnessHash.ok => MatchesGrammar(pin.witnessTypeString)
        /\ ~MatchesGrammar(pin.witnessTypeString) =>
               (~pout.witnessHash.ok /\ "hash" \notin DOMAIN pout.witnessHash)

\* StructName(type1,type2,...): the struct name and the comma-joined
\* parameter types of a string of the grammar, without the field names
CanonicalTypesOnly(s) ==
    LET n == (Len(s) - 6) \div 4
    IN <<s[5], "(">> \o
       [i \in 1..(2 * n) |-> IF i % 2 = 1 THEN s[7 + 4 * ((i - 1) \div 2)]
                                          ELSE s[10 + 4 * ((i - 2) \div 2)]]

\* the type hash: the first word of the encoding that is hashed
TypeHashOf(witnessHash) == witnessHash.hash.keccak256[1]

\* C23: the type hash is keccak256 of the type definition as the
\* witness-type-string writes it after the declaration,
\* StructName(type1 name1,type2 name2,...), field names included.
C23_TypeHashOfDefinition ==
    (pout # NoValue /\ pout.witnessHash.ok /\ MatchesGrammar(pin.witnessTypeString)) =>
        TypeHashOf(pout.witnessHash) =
            keccak256(SubSeq(pin.witnessTypeString, 5, Len(pin.witnessTypeString)))

C23_Witness ==
    /\ pout # NoValue /\ pout.witnessHash.ok
    /\ pin.witnessTypeString = ShortTypeString
    /\ TypeHashOf(pout.witnessHash) =
           keccak256(<<"Mandate", "(", "uint256", " ", "chainId", ",",
                       "bytes32", " ", "salt", ")">>)

\* C23 as stated: the type hash is keccak256 of StructName(type1,type2,...),
\* built from the struct name and the parameter types only.
C23_TypeHashOfTypesOnly ==
    (pout # NoValue /\ pout.witnessHash.ok /\ MatchesGrammar(pin.witnessTypeString)) =>
        TypeHashOf(pout.witnessHash) = keccak256(CanonicalTypesOnly(pin.witnessTypeString))

(***************************************************************************)
(* Inputs of the packing check                                             *)
(***************************************************************************)
AllocatorIdWidth == ResetPeriodShift - AllocatorShift   \* bits 251..160
AllocatorBitChoices == {0, 45, 91, 92, 94, 96}
TokenBitChoices == {0, 80, 159, 160}
ResetPeriodChoices ==
    {Number(w, 0) : w \in -1..8} \cup {Number(1, 5), Number(7, 5)}

SmallSubsets(S) == {T \in SUBSET S : Cardinality(T) <= 2}

IdInputs ==
    [isMultichain : BOOLEAN,
     resetPeriod  : ResetPeriodChoices,
     allocatorId  : SmallSubsets(AllocatorBitChoices),
     inputToken   : SmallSubsets(TokenBitChoices)]

FitsWidth(x, w) == \A b \in x : b < w
IdInputFits(i) ==
    /\ isInteger(i.resetPeriod) /\ i.resetPeriod.whole \in 0..7
    /\ FitsWidth(i.allocatorId, AllocatorIdWidth)
    /\ FitsWidth(i.inputToken, TokenBits)

InitId ==
    /\ pin \in IdInputs
    /\ pout = NoValue
    /\ Idle

PackId ==
    /\ pout = NoValue
    /\ pout' = packId(pin, pin.inputToken)
    /\ UNCHANGED <<pin, pc, req, q, calls, cfg, resp>>
    /\ UNCHANGED lookupVars

NextId == PackId
SpecId == InitId /\ [][NextId]_vars

\* C3: for in-width inputs the packed id has bit 255 = NOT isMultichain,
\* bits 254..252 = resetPeriod, bits 251..160 = allocatorId, bits 159..0 =
\* inputToken, nothing above bit 255, and unpacking returns the four inputs.
C3_PackingBijection ==
    (pout # NoValue /\ IdInputFits(pin)) =>
        /\ pout.ok
        /\ pout.id \subseteq 0..255
        /\ (255 \in pout.id) = ~pin.isMultichain
        /\ {b - 252 : b \in BitAnd(pout.id, 252..254)} = NumberBits(pin.resetPeriod.whole)
        /\ {b - 160 : b \in BitAnd(pout.id, 160..251)} = pin.allocatorId
        /\ BitAnd(pout.id, 0..159) = pin.inputToken
        /\ unpackId(pout.id) = [isMultichain |-> pin.isMultichain,
                                resetPeriod  |-> pin.resetPeriod.whole,
                                allocatorId  |-> pin.allocatorId,
                                inputToken   |-> pin.inputToken]

C3_Witness ==
    /\ pout # NoValue /\ IdInputFits(pin) /\ pout.ok
    /\ pin.isMultichain /\ pin.resetPeriod = Number(5, 0)
    /\ pin.allocatorId = {0, 91} /\ pin.inputToken = {80, 159}

\* C4 (as claimed): an input that does not fit its field makes packing fail
\* and no id is produced.
C4_OverflowRejected ==
    (pout # NoValue /\ ~IdInputFits(pin)) => ~pout.ok

\* C17 (as claimed): for any resetPeriod that is not one of the integers
\* 0..7, generation fails with 'Reset period must be between 0 and 7' and
\* no compact id is produced.
C17_ResetPeriodRejected ==
    (pout # NoValue
       /\ ~(isInteger(pin.resetPeriod) /\ pin.resetPeriod.whole \in 0..7)) =>
        /\ ~pout.ok
        /\ pout.error = ResetPeriodError

(***************************************************************************)
(* The provider caches under concurrent lookups:                           *)
(*   CoinGeckoProvider.getUsdPrice and getSupportedPlatforms,              *)
(*   QuoteService.getTokenInfo.                                            *)
(* Lookups are promises on one event loop: the code between two awaits     *)
(* runs as one step, and a lookup suspended at an await resumes when its   *)
(* response arrives, in any order relative to the other lookups.           *)
(***************************************************************************)
requestVars == <<pin, pout, pc, req, q, calls, cfg, resp>>

\* app.ts: the provider's configured cacheDurationMs
cacheDurationMs == 30000
\* 24 * 60 * 60 * 1000
CACHE_TTL == 86400000

\* the chain ids that CHAIN_TO_PLATFORM has an entry for
CHAIN_TO_PLATFORM == {1, 10, 8453}

\* Map.prototype.get (undefined is None) and Map.prototype.set
MapGet(m, k) == IF k \in DOMAIN m THEN Some(m[k]) ELSE None
MapSet(m, k, v) == [x \in DOMAIN m \cup {k} |-> IF x = k THEN v ELSE m[x]]

\* `${token.chainId}-${token.address}`: the address as the caller wrote it
priceCacheKey(token) == <<token.chainId, token.address>>

\* `${chainId}:${address.toLowerCase()}`
getCacheKey(address, chainId) == <<chainId, toLowerCase(address)>>

\* a provider that still serves an entry whose age equals the duration
priceIsFreshInclusive(cached, t) == cached # None /\ t - cached[1].timestamp <= cacheDurationMs

\* cached && Date.now() - cached.timestamp < this.config.cacheDurationMs
priceIsFresh(cached, t) == cached # None /\ t - cached[1].timestamp < cacheDurationMs

\* cached && now - cached.timestamp < this.CACHE_TTL
tokenInfoIsFresh(cached, t) == cached # None /\ t - cached[1].timestamp < CACHE_TTL

\* what a lookup returned or threw, and a network request it issued
Return(op, key, ok, value, cached) ==
    [kind |-> "return", op |-> op, key |-> key, ok |-> ok, value |-> value,
     at |-> clock, cached |-> cached]
Request(op, key) ==
    [kind |-> "fetch", op |-> op, key |-> key, ok |-> TRUE, value |-> None,
     at |-> clock, cached |-> FALSE]

UnsupportedPlatformError == "Unsupported platform"
PriceFetchError == "Failed to fetch token price"
PlatformsFetchError == "Failed to fetch supported platforms"
TokenInfoFetchError == "Failed to fetch token info"

\* a lookup slot: idle, or suspended at the await named by pc with the
\* locals it resumes with (now is getTokenInfo's const now)
NoToken == [chainId |-> 0, address |-> EmptyString]
IdleTask == [pc |-> "idle", token |-> NoToken, now |-> 0]
Suspended(at, token, now) == [pc |-> at, token |-> token, now |-> now]

(***************************************************************************)
(* Inputs of the cache checks                                              *)
(***************************************************************************)
MaxCalls == 3
TaskIds == {1, 2}
LookupTokens ==
    {[chainId |-> 1, address |-> ZeroAddress],
     [chainId |-> 8453, address |-> OutputTokenAddress],
     [chainId |-> 999, address |-> OutputTokenAddress]}
\* the instants at which something happens
ClockInstants == {0, 1, cacheDurationMs, CACHE_TTL}
\* the platform ids that /asset_platforms may list, named by chain id
PlatformLists == {{1, 10, 130, 8453, 42161}, {1}}
TokenInfoChoices == {[decimals |-> 6, symbol |-> "USDC"], [decimals |-> 18, symbol |-> "WETH"]}

InitLookup ==
    /\ pin = NoValue /\ pout = NoValue
    /\ pc = "idle" /\ req = NoValue /\ q = NoValue
    /\ calls = <<>> /\ cfg = NoValue /\ resp = NoValue
    /\ clock = 0 /\ cache = <<>> /\ platformCache = None /\ tokenInfoCache = <<>>
    /\ tasks = [t \in TaskIds |-> IdleTask]
    /\ started = 0 /\ platformRequests = 0 /\ last = [kind |-> "none"]

\* Date.now() moves on
Tick ==
    /\ \E t \in ClockInstants : t > clock /\ clock' = t
    /\ UNCHANGED <<cache, platformCache, tokenInfoCache, tasks, started,
                   platformRequests, last>>
    /\ UNCHANGED requestVars

\* getUsdPrice up to its await: the cache check, getPlatformInfo, the request
GetUsdPrice ==
    /\ started < MaxCalls
    /\ \E t \in TaskIds, token \in LookupTokens :
          /\ tasks[t].pc = "idle"
          /\ LET cacheKey == priceCacheKey(token)
                 cached == MapGet(cache, cacheKey)
             IN IF priceIsFresh(cached, clock)
                THEN /\ last' = Return("getUsdPrice", cacheKey, TRUE, cached[1].data, TRUE)
                     /\ UNCHANGED tasks
                ELSE IF token.chainId \notin CHAIN_TO_PLATFORM
                THEN /\ last' = Return("getUsdPrice", cacheKey, FALSE,
                                       UnsupportedChainError, FALSE)
                     /\ UNCHANGED tasks
                ELSE /\ last' = Request("getUsdPrice", cacheKey)
                     /\ tasks' = [tasks EXCEPT ![t] = Suspended("price", token, 0)]
    /\ started' = started + 1
    /\ UNCHANGED <<clock, cache, platformCache, tokenInfoCache, platformRequests>>
    /\ UNCHANGED requestVars

\* the price response arrives: validate, stamp with Date.now(), cache.set,
\* return; or makeRequest / validation throws
PriceResponse ==
    /\ \E t \in TaskIds :
          /\ tasks[t].pc = "price"
          /\ LET cacheKey == priceCacheKey(tasks[t].token)
             IN \/ \E usd \in UsdPriceChoices :
                      LET timestamp == clock
                          priceData == [price |-> usd, timestamp |-> timestamp,
                                        source |-> "coingecko"]
                      IN /\ cache' = MapSet(cache, cacheKey,
                                            [data |-> priceData, timestamp |-> timestamp])
                         /\ last' = Return("getUsdPrice", cacheKey, TRUE, priceData, FALSE)
                \/ /\ last' = Return("getUsdPrice", cacheKey, FALSE, PriceFetchError, FALSE)
                   /\ UNCHANGED cache
          /\ tasks' = [tasks EXCEPT ![t] = IdleTask]
    /\ UNCHANGED <<clock, platformCache, tokenInfoCache, started, platformRequests>>
    /\ UNCHANGED requestVars

\* getTokenInfo up to its first pending await: the cache check, the native
\* token, getChainPlatform, and getSupportedPlatforms up to its own await
\* (a cached list is returned without a request and checked at once)
GetTokenInfo ==
    /\ started < MaxCalls
    /\ \E t \in TaskIds, token \in LookupTokens :
          /\ tasks[t].pc = "idle"
          /\ LET cacheKey == getCacheKey(token.address, token.chainId)
                 now == clock
                 cached == MapGet(tokenInfoCache, cacheKey)
             IN IF tokenInfoIsFresh(cached, now)
                THEN /\ last' = Return("getTokenInfo", cacheKey, TRUE, cached[1], TRUE)
                     /\ UNCHANGED <<tasks, tokenInfoCache, platformRequests>>
                ELSE IF token.address = ZeroAddress
                THEN LET info == [decimals |-> 18, symbol |-> "ETH", timestamp |-> now]
                     IN /\ tokenInfoCache' = MapSet(tokenInfoCache, cacheKey, info)
                        /\ last' = Return("getTokenInfo", cacheKey, TRUE, info, FALSE)
                        /\ UNCHANGED <<tasks, platformRequests>>
                ELSE IF token.chainId \notin chainMapping
                THEN /\ last' = Return("getTokenInfo", cacheKey, FALSE,
                                       UnsupportedChainError, FALSE)
                     /\ UNCHANGED <<tasks, tokenInfoCache, platformRequests>>
                ELSE IF platformCache = None
                THEN /\ last' = Request("getSupportedPlatforms", cacheKey)
                     /\ platformRequests' = platformRequests + 1
                     /\ tasks' = [tasks EXCEPT ![t] = Suspended("platforms", token, now)]
                     /\ UNCHANGED tokenInfoCache
                ELSE IF token.chainId \notin platformCache[1]
                THEN /\ last' = Return("getTokenInfo", cacheKey, FALSE,
                                       UnsupportedPlatformError, FALSE)
                     /\ UNCHANGED <<tasks, tokenInfoCache, platformRequests>>
                ELSE /\ last' = Request("getTokenInfo", cacheKey)
                     /\ tasks' = [tasks EXCEPT ![t] = Suspended("tokenInfo", token, now)]
                     /\ UNCHANGED <<tokenInfoCache, platformRequests>>
    /\ started' = started + 1
    /\ UNCHANGED <<clock, cache, platformCache>>
    /\ UNCHANGED requestVars

\* the /asset_platforms response arrives inside getSupportedPlatforms: the
\* list is stored and returned to getTokenInfo, which checks it and
\* requests the token info; or the request throws
PlatformsResponse ==
    /\ \E t \in TaskIds :
          /\ tasks[t].pc = "platforms"
          /\ LET token == tasks[t].token
                 cacheKey == getCacheKey(token.address, token.chainId)
             IN \/ \E platforms \in PlatformLists :
                      /\ platformCache' = Some(platforms)
                      /\ IF token.chainId \in platforms
                         THEN /\ last' = Request("getTokenInfo", cacheKey)
                              /\ tasks' = [tasks EXCEPT ![t].pc = "tokenInfo"]
                         ELSE /\ last' = Return("getTokenInfo", cacheKey, FALSE,
                                                UnsupportedPlatformError, FALSE)
                              /\ tasks' = [tasks EXCEPT ![t] = IdleTask]
                \/ /\ last' = Return("getTokenInfo", cacheKey, FALSE,
                                     PlatformsFetchError, FALSE)
                   /\ tasks' = [tasks EXCEPT ![t] = IdleTask]
                   /\ UNCHANGED platformCache
    /\ UNCHANGED <<clock, cache, tokenInfoCache, started, platformRequests>>
    /\ UNCHANGED requestVars

\* the token-info response arrives: the entry is stamped with the now taken
\* when the lookup began and stored; or the response is not usable
TokenInfoResponse ==
    /\ \E t \in TaskIds :
          /\ tasks[t].pc = "tokenInfo"
          /\ LET token == tasks[t].token
                 cacheKey == getCacheKey(token.address, token.chainId)
             IN \/ \E data \in TokenInfoChoices :
                      LET info == [decimals |-> data.decimals, symbol |-> data.symbol,
                                   timestamp |-> tasks[t].now]
                      IN /\ tokenInfoCache' = MapSet(tokenInfoCache, cacheKey, info)
                         /\ last' = Return("getTokenInfo", cacheKey, TRUE, info, FALSE)
                \/ /\ last' = Return("getTokenInfo", cacheKey, FALSE,
                                     TokenInfoFetchError, FALSE)
                   /\ UNCHANGED tokenInfoCache
          /\ tasks' = [tasks EXCEPT ![t] = IdleTask]
    /\ UNCHANGED <<clock, cache, platformCache, started, platformRequests>>
    /\ UNCHANGED requestVars

NextLookup ==
    \/ Tick
    \/ GetUsdPrice
    \/ PriceResponse
    \/ GetTokenInfo
    \/ PlatformsResponse
    \/ TokenInfoResponse

SpecLookup == InitLookup /\ [][NextLookup]_vars

\* C26: once a fresh (within-TTL) entry exists for a key, no lookup
\* overwrites it until it has expired, in the price cache and in the
\* token-info cache.
C26_FreshEntryNotOverwritten ==
    [][/\ \A k \in DOMAIN cache :
             clock - cache[k].timestamp < cacheDurationMs => cache'[k] = cache[k]
       /\ \A k \in DOMAIN tokenInfoCache :
             clock - tokenInfoCache[k].timestamp < CACHE_TTL =>
                 tokenInfoCache'[k] = tokenInfoCache[k]]_vars

\* C27: the supported-platform list is requested from the oracle at most
\* once per process.
C27_PlatformsFetchedOnce == platformRequests <= 1

\* C28: a USD price is returned only at an age strictly below
\* cacheDurationMs; a lookup that finds an entry of that age or older issues
\* a request, and the answer replaces the entry.
C28_NoStalePriceServed ==
    [][/\ (last'.kind = "return" /\ last'.op = "getUsdPrice" /\ last'.ok) =>
              /\ last'.at - last'.value.timestamp < cacheDurationMs
              /\ ~last'.cached =>
                    cache'[last'.key] = [data |-> last'.value, timestamp |-> last'.at]
       /\ (/\ started' # started
           /\ last'.op = "getUsdPrice"
           /\ last'.key \in DOMAIN cache
           /\ clock - cache[last'.key].timestamp >= cacheDurationMs) =>
              last'.kind = "fetch"]_vars

\* a lookup exactly cacheDurationMs after the entry was written went to
\* the network
C28_Witness ==
    /\ last.kind = "fetch" /\ last.op = "getUsdPrice"
    /\ last.key \in DOMAIN cache
    /\ last.at - cache[last.key].timestamp = cacheDurationMs

====
